---------------------------- MODULE Spec2Model ----------------------------
(***************************************************************************)
(* A model of libXNAV (src/src/main.rs): the pulsar timing model, the      *)
(* photon simulator, the Kalman filter and the simulation driver.          *)
(*                                                                         *)
(* Numbers.  The program computes in f64.  The model computes exactly over *)
(* the rationals: a number is a pair <<n, d>> in lowest terms with d > 0.  *)
(* The rounding of f64 is therefore not modelled.  Its underflow is        *)
(* modelled at the one place where the input of main decides whether a     *)
(* result is zero: the square that makes a variance of sigma * C_LIGHT.    *)
(* TLC's integers are 32 bits wide, so the inputs the model enumerates are *)
(* small, and the constants whose magnitude cannot be held (C_LIGHT,       *)
(* GM_SUN, the sentinel sigma, the spacecraft's orbit, the start and the   *)
(* process noise of the covariance, the underflow threshold) are scaled;   *)
(* the scaled values are marked where they are defined.                    *)
(***************************************************************************)
EXTENDS Integers, Sequences, FiniteSets, TLC

VARIABLES
    state,            \* KalmanFilter.state: 6 rationals (position, velocity)
    covariance,       \* KalmanFilter.covariance: 6 x 6 rationals
    outcome,          \* how the last call on the filter ended
    call,             \* the last call on the filter and its arguments
    pre,              \* state and covariance as they were when that call began
    clean,            \* every update so far succeeded with variances > 0
    ncalls,           \* number of calls made on the filter
    pulsars,          \* main: the list of pulsar descriptors
    true_pos,         \* main: the spacecraft's true position
    true_vel,         \* main: the spacecraft's true velocity
    pc,               \* main: where the driver stands in the body of its loop
    t,                \* main: the loop variable
    measurements,     \* main: the delays measured in this step
    noise_variances,  \* main: their variances
    counts,           \* photon_times.len() of each pulsar in this step
    noises,           \* measured_toa_noise of each pulsar in this step
    ops,              \* what the loop body has done so far in this step
    trajectory,       \* the records written to trajectory.csv
    exposure,         \* the duration last given to simulate_photons
    photon_times,     \* what simulate_photons last returned
    delay             \* what shapiro_delay last returned

filterVars == <<state, covariance, outcome, call, pre, clean, ncalls>>
truthVars == <<pulsars, true_pos, true_vel>>
loopVars == <<pc, t, measurements, noise_variances, counts, noises, ops, trajectory>>
photonVars == <<exposure, photon_times>>

vars == <<filterVars, truthVars, loopVars, photonVars, delay>>

-----------------------------------------------------------------------------
(* Exact rational arithmetic (the model's stand-in for f64).               *)

Abs(x) == IF x < 0 THEN -x ELSE x

RECURSIVE GCD(_, _)
GCD(a, b) == IF b = 0 THEN a ELSE GCD(b, a % b)

Rat(n, d) ==
    LET g == GCD(Abs(n), Abs(d))
        s == IF d < 0 THEN -1 ELSE 1
    IN  <<(s * n) \div g, (s * d) \div g>>

Zero == <<0, 1>>
One == <<1, 1>>
Int2Rat(k) == <<k, 1>>

RNeg(a) == <<-a[1], a[2]>>

RAdd(a, b) ==
    IF a[1] = 0 THEN b
    ELSE IF b[1] = 0 THEN a
    ELSE IF a[2] = b[2] THEN Rat(a[1] + b[1], a[2])
    ELSE LET g == GCD(a[2], b[2])
         IN  Rat(a[1] * (b[2] \div g) + b[1] * (a[2] \div g), (a[2] \div g) * b[2])

RSub(a, b) == RAdd(a, RNeg(b))

RMul(a, b) ==
    LET g1 == GCD(Abs(a[1]), b[2])
        g2 == GCD(Abs(b[1]), a[2])
    IN  IF a[1] = 0 \/ b[1] = 0 THEN Zero
        ELSE IF a = One THEN b
        ELSE IF b = One THEN a
        ELSE <<(a[1] \div g1) * (b[1] \div g2), (a[2] \div g2) * (b[2] \div g1)>>

RInv(a) == IF a[1] < 0 THEN <<-a[2], -a[1]>> ELSE <<a[2], a[1]>>

RDiv(a, b) == RMul(a, RInv(b))

RLt(a, b) == RSub(a, b)[1] < 0
RLe(a, b) == RSub(a, b)[1] <= 0

RECURSIVE RSum(_, _)
\* f[1] + ... + f[n]
RSum(f, n) == IF n = 0 THEN Zero ELSE RAdd(RSum(f, n - 1), f[n])

\* f64::floor, as an integer
Floor(a) == a[1] \div a[2]

RECURSIVE ISqrtIn(_, _, _)
\* the integer square root of n, known to lie in lo..hi
ISqrtIn(n, lo, hi) ==
    IF lo = hi THEN lo
    ELSE LET mid == (lo + hi + 1) \div 2
         IN  IF mid * mid <= n THEN ISqrtIn(n, mid, hi) ELSE ISqrtIn(n, lo, mid - 1)

\* the resolution of the model's square root
SQRT_RES == 256

\* f64::sqrt of a >= 0.  It is exact when a is the square of a rational whose
\* denominator divides SQRT_RES times the denominator of a, and rounded down to
\* the next multiple of 1 / (SQRT_RES * the denominator of a) otherwise.
Sqrt(a) ==
    LET n == a[1] * a[2] * SQRT_RES * SQRT_RES
    IN  Rat(ISqrtIn(n, 0, 46340), a[2] * SQRT_RES)

\* the values of f64 that are no rationals
PosInf == <<1, 0>>
NaN == <<0, 0>>
IsFinite(a) == a[2] # 0

\* f64::ln: not a number below 0, minus infinity at 0, and on x > 0 the first
\* term of its series in (x - 1) / (x + 1), which has the sign and the zero of
\* the logarithm and grows with x as the logarithm does
Ln(x) ==
    IF x[1] < 0 THEN NaN
    ELSE IF x[1] = 0 THEN RNeg(PosInf)
    ELSE RDiv(RMul(<<2, 1>>, RSub(x, One)), RAdd(x, One))

-----------------------------------------------------------------------------
(* Dense matrices as nalgebra's DMatrix / Matrix6 are used by the filter:  *)
(* a matrix is the sequence of its rows.  A matrix with no rows carries no *)
(* column count, so the operators that need it take it as a parameter.     *)

Dim == 1..6

Identity6 == [i \in Dim |-> [j \in Dim |-> IF i = j THEN One ELSE Zero]]
Zeros6 == [i \in Dim |-> Zero]

Scale(A, k) == [i \in DOMAIN A |-> [j \in DOMAIN A[i] |-> RMul(A[i][j], k)]]

\* the transpose of A, which has c columns
Transpose(A, c) == [j \in 1..c |-> [i \in 1..Len(A) |-> A[i][j]]]

\* A * B, where B has c columns; a product over an empty inner dimension is
\* the zero matrix
MatMul(A, B, c) ==
    [i \in 1..Len(A) |-> [j \in 1..c |->
        RSum([k \in 1..Len(B) |-> RMul(A[i][k], B[k][j])], Len(B))]]

MatAdd(A, B) == [i \in DOMAIN A |-> [j \in DOMAIN A[i] |-> RAdd(A[i][j], B[i][j])]]
MatSub(A, B) == [i \in DOMAIN A |-> [j \in DOMAIN A[i] |-> RSub(A[i][j], B[i][j])]]

\* A * v and u + v on column vectors
MatVec(A, v) ==
    [i \in 1..Len(A) |-> RSum([k \in 1..Len(v) |-> RMul(A[i][k], v[k])], Len(v))]
VecAdd(u, v) == [i \in DOMAIN u |-> RAdd(u[i], v[i])]
VecSub(u, v) == [i \in DOMAIN u |-> RSub(u[i], v[i])]

\* A without row r and column c (A is n x n)
Minor(A, r, c) ==
    [i \in 1..(Len(A) - 1) |-> [j \in 1..(Len(A) - 1) |->
        A[IF i < r THEN i ELSE i + 1][IF j < c THEN j ELSE j + 1]]]

RECURSIVE Det(_)
Det(A) ==
    IF Len(A) = 0 THEN One
    ELSE RSum([j \in 1..Len(A) |->
                 RMul(IF j % 2 = 1 THEN A[1][j] ELSE RNeg(A[1][j]),
                      Det(Minor(A, 1, j)))], Len(A))

\* Matrix::try_inverse: None when the matrix is singular, else Some(inverse)
TryInverse(A) ==
    LET d == Det(A)
    IN  IF d = Zero THEN [some |-> FALSE, m |-> <<>>]
        ELSE [some |-> TRUE,
              m |-> [i \in 1..Len(A) |-> [j \in 1..Len(A) |->
                RDiv(IF (i + j) % 2 = 0 THEN Det(Minor(A, j, i))
                     ELSE RNeg(Det(Minor(A, j, i))), d)]]]

-----------------------------------------------------------------------------
(* Constants of the program.                                               *)

\* const C_LIGHT: f64 = 299_792.458; scaled
C_LIGHT == <<3, 1>>

\* Pulsar::new sets width: 0.05
PULSE_WIDTH == <<1, 20>>

\* KalmanFilter::new: covariance = identity * 1000.0; scaled
P0_DIAG == <<2, 1>>

\* KalmanFilter::predict: q = identity * 0.1; scaled
Q_DIAG == <<1, 2>>

\* const GM_SUN: f64 = 132_712_440_018.0; scaled
GM_SUN == <<27, 4>>

\* main: sigma = 1.0e9 when no photon was detected; scaled
SENTINEL_SIGMA == <<2, 1>>

\* main: for t in 0..100
NUM_STEPS == 100

\* main: the burn at t == 40 adds (0, 2, 0) to the true velocity
BURN_STEP == 40
BURN == <<Zero, <<2, 1>>, Zero>>

\* main: dt = 1.0
DT == One

\* f64: the square of a number of magnitude below about 1.5e-162 is 0; scaled
MIN_SQUARABLE == <<1, 100>>

-----------------------------------------------------------------------------
(* Pulsar: the descriptor built by Pulsar::new.  The unit direction is     *)
(* taken among the rational points of the unit sphere (the conversion from *)
(* right ascension and declination is trigonometric and is not modelled).  *)

Vec3(x, y, z) == <<x, y, z>>

DirX == Vec3(One, Zero, Zero)
DirY == Vec3(Zero, One, Zero)
DirZ == Vec3(Zero, Zero, One)
DirXY == Vec3(<<3, 5>>, <<4, 5>>, Zero)

Pulsar(id, dir, period, flux) ==
    [id |-> id, dir |-> dir, flux |-> flux, width |-> PULSE_WIDTH, period |-> period]

Dot3(u, v) == RAdd(RAdd(RMul(u[1], v[1]), RMul(u[2], v[2])), RMul(u[3], v[3]))

\* Vector3::norm and Vector3::normalize
Norm(v) == Sqrt(Dot3(v, v))
Normalize(v) == [i \in 1..3 |-> RDiv(v[i], Norm(v))]

\* what simulate_photons draws for one photon: is_signal; sample, the draw of
\* pulse_phase when is_signal and the uniform phase otherwise; window, the
\* uniform factor of t_window
PhotonDraw(is_signal, sample, window) ==
    [is_signal |-> is_signal, sample |-> sample, window |-> window]

\* final_time of one photon
FinalTime(p, duration, d) ==
    LET phase == IF d.is_signal
                 THEN RSub(d.sample, Int2Rat(Floor(d.sample)))
                 ELSE d.sample
        t_window == RMul(d.window, duration)
        cycles == Int2Rat(Floor(RDiv(t_window, p.period)))
    IN  RMul(RAdd(cycles, phase), p.period)

\* s with x put after its elements that are <= x (s is ascending)
Insert(x, s) ==
    LET k == Cardinality({i \in 1..Len(s) : RLe(s[i], x)})
    IN  SubSeq(s, 1, k) \o <<x>> \o SubSeq(s, k + 1, Len(s))

RECURSIVE SortAscending(_)
\* timestamps.sort_by(partial_cmp)
SortAscending(s) ==
    IF s = <<>> THEN <<>>
    ELSE Insert(s[Len(s)], SortAscending(SubSeq(s, 1, Len(s) - 1)))

\* simulate_photons that keeps the photons that fall after the exposure
SimulatePhotonsKeepLate(p, duration, draws) ==
    IF RLe(RMul(p.flux, duration), Zero) THEN <<>>
    ELSE SortAscending([i \in 1..Len(draws) |-> FinalTime(p, duration, draws[i])])

\* Pulsar::simulate_photons(duration, rng) where the generator yields draws:
\* the Poisson sample is Len(draws)
SimulatePhotons(p, duration, draws) ==
    IF RLe(RMul(p.flux, duration), Zero) THEN <<>>
    ELSE SortAscending(
            SelectSeq([i \in 1..Len(draws) |-> FinalTime(p, duration, draws[i])],
                      LAMBDA x : RLt(x, duration)))

\* factor of shapiro_delay
ShapiroFactor ==
    RDiv(RMul(<<2, 1>>, GM_SUN), RMul(C_LIGHT, RMul(C_LIGHT, C_LIGHT)))

\* cos_theta of shapiro_delay
CosTheta(p, pos_spacecraft) == Dot3(Normalize(pos_spacecraft), p.dir)

\* shapiro_delay with the sign of the factor lost
ShapiroDelayPlusFactor(p, pos_spacecraft) ==
    IF RLt(Norm(pos_spacecraft), One) THEN Zero
    ELSE LET l == Ln(RSub(One, CosTheta(p, pos_spacecraft)))
         IN  IF IsFinite(l) THEN RMul(ShapiroFactor, l) ELSE l

\* Pulsar::shapiro_delay(pos_spacecraft)
ShapiroDelay(p, pos_spacecraft) ==
    IF RLt(Norm(pos_spacecraft), One) THEN Zero
    ELSE LET l == Ln(RSub(One, CosTheta(p, pos_spacecraft)))
         IN  IF IsFinite(l) THEN RMul(RNeg(ShapiroFactor), l)
             ELSE IF l = NaN THEN NaN
             ELSE PosInf

-----------------------------------------------------------------------------
(* KalmanFilter                                                            *)

\* KalmanFilter::new(initial_pos)
KalmanNew(initial_pos) ==
    [state |-> [i \in Dim |-> IF i <= 3 THEN initial_pos[i] ELSE Zero],
     covariance |-> Scale(Identity6, P0_DIAG)]

\* the transition matrix f of predict
TransitionMatrix(dt) ==
    [i \in Dim |-> [j \in Dim |->
        IF i = j THEN One ELSE IF j = i + 3 THEN dt ELSE Zero]]

\* predict with f in place of f.transpose()
KalmanPredictNoTranspose(kf, dt) ==
    LET f == TransitionMatrix(dt)
        q == Scale(Identity6, Q_DIAG)
    IN  [state |-> MatVec(f, kf.state),
         covariance |-> MatAdd(MatMul(MatMul(f, kf.covariance, 6), f, 6), q)]

\* KalmanFilter::predict(dt) on a filter kf
KalmanPredict(kf, dt) ==
    LET f == TransitionMatrix(dt)
        q == Scale(Identity6, Q_DIAG)
    IN  [state |-> MatVec(f, kf.state),
         covariance |->
            MatAdd(MatMul(MatMul(f, kf.covariance, 6), Transpose(f, 6), 6), q)]

\* from_iterator as the statically sized allocator does it: the first n
\* elements are taken and only a short iterator is refused
DVectorFromIteratorPrefix(n, items) ==
    IF Len(items) < n THEN [panic |-> TRUE, m |-> <<>>]
    ELSE [panic |-> FALSE, m |-> SubSeq(items, 1, n)]

\* DVector::from_iterator(n, it): the dynamic allocator collects the iterator
\* and asserts that it yielded exactly n elements
DVectorFromIterator(n, items) ==
    IF Len(items) # n THEN [panic |-> TRUE, m |-> <<>>]
    ELSE [panic |-> FALSE, m |-> items]

\* DMatrix + DMatrix: asserts equal shapes
DMatrixAdd(A, B) ==
    IF Len(A) # Len(B) THEN [panic |-> TRUE, m |-> <<>>]
    ELSE [panic |-> FALSE, m |-> MatAdd(A, B)]

\* DMatrix::from_diagonal(DVector::from_row_slice(variances))
FromDiagonal(v) ==
    [i \in 1..Len(v) |-> [j \in 1..Len(v) |-> IF i = j THEN v[i] ELSE Zero]]

\* the observation matrix h of update: one row per pulsar
ObservationMatrix(ps) ==
    [i \in 1..Len(ps) |-> [j \in Dim |->
        IF j <= 3 THEN ps[i].dir[j] ELSE Zero]]

\* s = h * covariance * h^T + r
InnovationCovariance(kf, ps, variances) ==
    LET h == ObservationMatrix(ps)
        n == Len(ps)
    IN  DMatrixAdd(MatMul(MatMul(h, kf.covariance, 6), Transpose(h, 6), n),
                   FromDiagonal(variances))

\* try_inverse refusing the 0 x 0 matrix
TryInverseEmptyFails(A) ==
    IF Len(A) = 0 THEN [some |-> FALSE, m |-> <<>>] ELSE TryInverse(A)

\* an inversion that answers a singular matrix with the zero matrix
TryInverseSingularZero(A) ==
    IF Det(A) = Zero
    THEN [some |-> TRUE, m |-> [i \in 1..Len(A) |-> [j \in 1..Len(A) |-> Zero]]]
    ELSE TryInverse(A)

\* s.clone().try_inverse()
InnovationInverse(s) == TryInverse(s)

Unchanged(kf, how) == [outcome |-> how, state |-> kf.state, covariance |-> kf.covariance]

\* KalmanFilter::update(pulsars, measured_delays, variances) on a filter kf:
\* how the call ends ("Ok"; "Err", the error of a singular s; "Panic") and
\* the filter it leaves
KalmanUpdate(kf, ps, measured_delays, variances) ==
    LET n == Len(ps)
        z == DVectorFromIterator(n,
                 [i \in 1..Len(measured_delays) |->
                     RMul(RNeg(measured_delays[i]), C_LIGHT)])
        h == ObservationMatrix(ps)
        y == VecSub(z.m, MatVec(h, kf.state))
        s == InnovationCovariance(kf, ps, variances)
        s_inv == InnovationInverse(s.m)
        k == MatMul(MatMul(kf.covariance, Transpose(h, 6), n), s_inv.m, n)
    IN  IF z.panic \/ s.panic THEN Unchanged(kf, "Panic")
        ELSE IF ~s_inv.some THEN Unchanged(kf, "Err")
        ELSE [outcome |-> "Ok",
              state |-> VecAdd(kf.state, MatVec(k, y)),
              covariance |->
                  MatMul(MatSub(Identity6, MatMul(k, h, 6)), kf.covariance, 6)]

-----------------------------------------------------------------------------
(* The filter under arbitrary callers: KalmanFilter::new, then any calls   *)
(* of predict and update.                                                  *)

MaxPulsars == 2
MaxCalls == 2

InitialPositions == {<<Zero, Zero, Zero>>, Vec3(One, <<-2, 1>>, <<1, 2>>)}
Dts == {One}

PulsarX == Pulsar("PSR X", DirX, <<1, 100>>, One)
PulsarY == Pulsar("PSR Y", DirY, <<1, 50>>, <<2, 1>>)
PulsarXY == Pulsar("PSR XY", DirXY, <<1, 100>>, One)

\* what a caller hands to update for one pulsar
Observations ==
    { [pulsar |-> PulsarX, delay |-> <<1, 3>>, variance |-> Zero],
      [pulsar |-> PulsarXY, delay |-> <<-2, 3>>, variance |-> One] }

\* calls of update with three lists of one length
MatchedCalls ==
    UNION { { [pulsars |-> [i \in 1..n |-> o[i].pulsar],
               measured_delays |-> [i \in 1..n |-> o[i].delay],
               variances |-> [i \in 1..n |-> o[i].variance]]
              : o \in [1..n -> Observations] } : n \in 0..MaxPulsars }

\* calls of update with lists of lengths a, b, c that are not all equal
MismatchedCalls ==
    { [pulsars |-> [i \in 1..a |-> PulsarXY],
       measured_delays |-> [i \in 1..b |-> <<1, 3>>],
       variances |-> [i \in 1..c |-> One]]
      : <<a, b, c>> \in { l \in (0..MaxPulsars) \X (0..MaxPulsars) \X (0..MaxPulsars) :
                            ~(l[1] = l[2] /\ l[2] = l[3]) } }

NoCall == [op |-> "new", dt |-> Zero, pulsars |-> <<>>, measured_delays |-> <<>>,
           variances |-> <<>>]

Filter == [state |-> state, covariance |-> covariance]

Origin == Vec3(Zero, Zero, Zero)

\* the values of the variables that a specification does not use
NoTruth == pulsars = <<>> /\ true_pos = Origin /\ true_vel = Origin
NoLoop ==
    /\ pc = "none" /\ t = 0
    /\ measurements = <<>> /\ noise_variances = <<>>
    /\ counts = <<>> /\ noises = <<>>
    /\ ops = <<>> /\ trajectory = <<>>
NoPhotons == exposure = Zero /\ photon_times = <<>>
NoFilter ==
    /\ state = KalmanNew(Origin).state
    /\ covariance = KalmanNew(Origin).covariance
    /\ pre = KalmanNew(Origin)
    /\ outcome = "Ok" /\ call = NoCall /\ clean = TRUE /\ ncalls = 0

InitFilter ==
    /\ \E p \in InitialPositions :
          /\ state = KalmanNew(p).state
          /\ covariance = KalmanNew(p).covariance
          /\ pre = KalmanNew(p)
    /\ outcome = "Ok"
    /\ call = NoCall
    /\ clean = TRUE
    /\ ncalls = 0
    /\ NoTruth /\ NoLoop /\ NoPhotons /\ delay = Zero

Predict ==
    /\ outcome # "Panic"
    /\ ncalls < MaxCalls
    /\ \E dt \in Dts :
          \E kf \in {KalmanPredict(Filter, dt)} :
              /\ state' = kf.state
              /\ covariance' = kf.covariance
              /\ call' = [NoCall EXCEPT !.op = "predict", !.dt = dt]
    /\ pre' = Filter
    /\ outcome' = "Ok"
    /\ ncalls' = ncalls + 1
    /\ UNCHANGED <<clean, truthVars, loopVars, photonVars, delay>>

Update ==
    /\ outcome # "Panic"
    /\ ncalls < MaxCalls
    /\ \E c \in MatchedCalls \cup MismatchedCalls :
          \E r \in {KalmanUpdate(Filter, c.pulsars, c.measured_delays, c.variances)} :
              /\ state' = r.state
              /\ covariance' = r.covariance
              /\ outcome' = r.outcome
              /\ call' = [NoCall EXCEPT !.op = "update", !.pulsars = c.pulsars,
                                        !.measured_delays = c.measured_delays,
                                        !.variances = c.variances]
              /\ clean' = (clean /\ r.outcome = "Ok"
                                 /\ \A i \in 1..Len(c.variances) :
                                        RLt(Zero, c.variances[i]))
    /\ pre' = Filter
    /\ ncalls' = ncalls + 1
    /\ UNCHANGED <<truthVars, loopVars, photonVars, delay>>

NextFilter == Predict \/ Update

Spec == InitFilter /\ [][NextFilter]_vars

-----------------------------------------------------------------------------
(* Properties of the filter.                                               *)

IsSymmetric(M) == \A i \in DOMAIN M : \A j \in DOMAIN M : M[i][j] = M[j][i]

RECURSIVE IsPSD(_)
\* a symmetric matrix is positive semi-definite: symmetric elimination never
\* meets a negative pivot, and a zero pivot stands in a zero row
IsPSD(M) ==
    IF Len(M) = 0 THEN TRUE
    ELSE IF M[1][1][1] < 0 THEN FALSE
    ELSE IF M[1][1][1] = 0
    THEN (\A j \in 2..Len(M) : M[1][j] = Zero) /\ IsPSD(Minor(M, 1, 1))
    ELSE IsPSD([i \in 1..(Len(M) - 1) |-> [j \in 1..(Len(M) - 1) |->
                   RSub(M[i + 1][j + 1],
                        RDiv(RMul(M[i + 1][1], M[1][j + 1]), M[1][1]))]])

LengthsMatch ==
    /\ Len(call.pulsars) = Len(call.measured_delays)
    /\ Len(call.pulsars) = Len(call.variances)

FilterUntouched == state = pre.state /\ covariance = pre.covariance

\* the innovation covariance of the last call of update is singular
SingularCall ==
    /\ call.op = "update"
    /\ LengthsMatch
    /\ Det(InnovationCovariance(pre, call.pulsars, call.variances).m) = Zero

\* C1: an update whose innovation covariance S = H*P*H^T + diag(variances)
\* is not invertible returns the error and leaves state and covariance as
\* they were before the call.
C1_SingularFailsUntouched ==
    SingularCall => (outcome = "Err" /\ FilterUntouched)

\* C1 happens: an update of a non-empty batch met a singular S, also after
\* earlier calls changed the filter
C1_Witness ==
    /\ SingularCall
    /\ Len(call.pulsars) = 2
    /\ ncalls = 2
    /\ outcome = "Err"

MismatchedCall == call.op = "update" /\ ~LengthsMatch

\* C2 as claimed: an update with lists of unequal lengths returns an
\* InvalidDimensions error.
C2_Original ==
    MismatchedCall => outcome = "InvalidDimensions"

\* C2 amended: an update with lists of unequal lengths, whichever is longer,
\* does not return at all: it panics on a dimension assertion of the matrix
\* library, before state or covariance is written.
C2_MismatchPanics ==
    MismatchedCall => (outcome = "Panic" /\ FilterUntouched)

\* C2 happens: more delays than pulsars, and the same number of variances
C2_Witness ==
    /\ MismatchedCall
    /\ Len(call.measured_delays) > Len(call.pulsars)
    /\ Len(call.variances) = Len(call.pulsars)
    /\ outcome = "Panic"

EmptyCall ==
    /\ call.op = "update"
    /\ call.pulsars = <<>> /\ call.measured_delays = <<>> /\ call.variances = <<>>

\* C3: update with zero pulsars returns success and leaves state and
\* covariance unchanged, from any filter state.
C3_EmptyUpdateIsNoOp ==
    EmptyCall => (outcome = "Ok" /\ FilterUntouched)

\* C3 happens: an empty update on a filter that earlier calls had changed
C3_Witness ==
    /\ EmptyCall
    /\ ncalls = 2
    /\ outcome = "Ok"
    /\ covariance # KalmanNew(Origin).covariance

-----------------------------------------------------------------------------
(* The measurement model of main.                                          *)

\* roemer_delay with the sign lost
RoemerDelayNoSign(pos, p) == RDiv(Dot3(pos, p.dir), C_LIGHT)

\* main: roemer_delay = -(true_pos.dot(&p.dir)) / C_LIGHT
RoemerDelay(pos, p) == RNeg(RDiv(Dot3(pos, p.dir), C_LIGHT))

\* main: perfect_delay
PerfectDelay(pos, p) == RAdd(RoemerDelay(pos, p), ShapiroDelay(p, pos))

\* main: standard_error of n photons
StandardError(p, n) == RDiv(RMul(p.width, p.period), Sqrt(Int2Rat(n)))

\* sigma that divides by the photon count whatever it is
SigmaNoEmptyCheck(p, n) == RDiv(RMul(p.width, p.period), Sqrt(Int2Rat(n)))

\* main: sigma of n photons
Sigma(p, n) ==
    IF n # 0 THEN RDiv(RMul(p.width, p.period), Sqrt(Int2Rat(n)))
    ELSE SENTINEL_SIGMA

\* f64::powi(2), which underflows to 0
Powi2(x) ==
    IF RLt(RNeg(MIN_SQUARABLE), x) /\ RLt(x, MIN_SQUARABLE) THEN Zero ELSE RMul(x, x)

\* main: (sigma * C_LIGHT).powi(2)
NoiseVariance(p, n) == Powi2(RMul(Sigma(p, n), C_LIGHT))

-----------------------------------------------------------------------------
(* The sanity check of the linear algebra: a filter that stands at the     *)
(* true position with zero covariance is given, after each predict, the    *)
(* true geometric delay of each pulsar.                                    *)

MaxRounds == 2

SanityPositions == {Vec3(One, <<-2, 1>>, <<1, 2>>), Vec3(<<3, 1>>, Zero, <<-1, 1>>)}

SanityPulsarLists ==
    UNION { [1..n -> {PulsarX, PulsarY}] : n \in 0..MaxPulsars }

Position == <<state[1], state[2], state[3]>>

InitSanity ==
    /\ \E ps \in SanityPulsarLists : \E p \in SanityPositions :
          /\ pulsars = ps
          /\ true_pos = p
          /\ state = KalmanNew(p).state
    /\ true_vel = Origin
    /\ covariance = Scale(Identity6, Zero)
    /\ pre = [state |-> state, covariance |-> covariance]
    /\ outcome = "Ok" /\ call = NoCall /\ clean = TRUE /\ ncalls = 0
    /\ NoLoop /\ NoPhotons /\ delay = Zero

SanityPredict ==
    /\ call.op \in {"new", "update"}
    /\ ncalls < 2 * MaxRounds
    /\ \E dt \in Dts :
          \E kf \in {KalmanPredict(Filter, dt)} :
              /\ state' = kf.state
              /\ covariance' = kf.covariance
              /\ call' = [NoCall EXCEPT !.op = "predict", !.dt = dt]
    /\ pre' = Filter
    /\ outcome' = "Ok"
    /\ ncalls' = ncalls + 1
    /\ UNCHANGED <<clean, truthVars, loopVars, photonVars, delay>>

SanityUpdate ==
    /\ call.op = "predict"
    /\ \E v \in [1..Len(pulsars) -> {Zero, One}] :
          LET d == [i \in 1..Len(pulsars) |-> RoemerDelay(true_pos, pulsars[i])]
          IN  \E r \in {KalmanUpdate(Filter, pulsars, d, v)} :
                  /\ state' = r.state
                  /\ covariance' = r.covariance
                  /\ outcome' = r.outcome
                  /\ call' = [NoCall EXCEPT !.op = "update", !.pulsars = pulsars,
                                            !.measured_delays = d, !.variances = v]
                  /\ clean' = (clean /\ r.outcome = "Ok"
                                     /\ \A i \in 1..Len(v) : RLt(Zero, v[i]))
    /\ pre' = Filter
    /\ ncalls' = ncalls + 1
    /\ UNCHANGED <<truthVars, loopVars, photonVars, delay>>

NextSanity == SanityPredict \/ SanityUpdate

SpecSanity == InitSanity /\ [][NextSanity]_vars

-----------------------------------------------------------------------------
(* Pulsar::shapiro_delay under arbitrary callers.                          *)

MaxCoord == 4

\* spacecraft positions: the points of the plane z = 0 whose coordinates are
\* halves, the origin and points closer to it than 1 among them
ShapiroPositions ==
    { Vec3(Rat(x, 2), Rat(y, 2), Zero) : x, y \in (-MaxCoord)..MaxCoord }

ShapiroPulsars ==
    { PulsarX, PulsarY, PulsarXY, Pulsar("PSR -X", Vec3(<<-1, 1>>, Zero, Zero), One, One) }

InitShapiro ==
    /\ \E p \in ShapiroPulsars : pulsars = <<p>>
    /\ true_pos = Origin /\ true_vel = Origin
    /\ delay = Zero
    /\ pc = "init"
    /\ t = 0
    /\ measurements = <<>> /\ noise_variances = <<>>
    /\ counts = <<>> /\ noises = <<>>
    /\ ops = <<>> /\ trajectory = <<>>
    /\ NoFilter /\ NoPhotons

ShapiroCall ==
    /\ \E pos \in ShapiroPositions :
          /\ true_pos' = pos
          /\ delay' = ShapiroDelay(pulsars[1], pos)
    /\ pc' = "returned"
    /\ UNCHANGED <<filterVars, pulsars, true_vel, t, measurements, noise_variances,
                   counts, noises, ops, trajectory, photonVars>>

NextShapiro == ShapiroCall

SpecShapiro == InitShapiro /\ [][NextShapiro]_vars

\* the position given to the last call is closer to the origin than 1
NearOrigin == RLt(Norm(true_pos), One)

\* C6 as claimed: shapiro_delay is non-negative for all positions with
\* cos(theta) < 1 and returns exactly 0 when the position magnitude is < 1.
C6_Original ==
    pc = "returned" =>
        IF NearOrigin THEN delay = Zero
        ELSE RLt(CosTheta(pulsars[1], true_pos), One) => RLe(Zero, delay)

\* C6 amended: shapiro_delay returns exactly 0 when the position magnitude is
\* < 1; otherwise it is non-negative when 0 <= cos(theta) < 1 and negative
\* when cos(theta) < 0, that is when the pulsar stands more than a right angle
\* away from the spacecraft as seen from the origin.
C6_ShapiroSign ==
    pc = "returned" =>
        IF NearOrigin THEN delay = Zero
        ELSE LET c == CosTheta(pulsars[1], true_pos)
             IN  /\ (RLe(Zero, c) /\ RLt(c, One)) => (IsFinite(delay) /\ RLe(Zero, delay))
                 /\ RLt(c, Zero) => (IsFinite(delay) /\ RLt(delay, Zero))

\* C6 happens: a position at distance >= 1 under an acute angle to the
\* pulsar, with a positive delay
C6_Witness ==
    /\ pc = "returned"
    /\ ~NearOrigin
    /\ RLt(Zero, CosTheta(pulsars[1], true_pos))
    /\ RLt(CosTheta(pulsars[1], true_pos), One)
    /\ RLt(Zero, delay)

-----------------------------------------------------------------------------
(* Pulsar::simulate_photons under arbitrary callers and random draws.  The  *)
(* function reads the pulsar, its argument and the generator only, so one  *)
(* call is followed in each behaviour.                                     *)

MaxPhotons == 3

\* flux 0, and two pulsars whose period is shorter than some exposures
PhotonPulsars ==
    { Pulsar("PSR dark", DirX, <<1, 2>>, Zero),
      Pulsar("PSR 2", DirX, <<1, 2>>, One),
      Pulsar("PSR 3", DirY, <<1, 3>>, <<2, 1>>) }

Durations == {<<-1, 1>>, Zero, One, <<3, 2>>}

\* a Gaussian sample below 0 and one above 1 for a signal photon, a uniform
\* phase for a background photon; a uniform factor for the window
PhotonDraws ==
    { PhotonDraw(sig[1], sig[2], w) :
        sig \in { <<TRUE, <<-1, 4>> >>, <<TRUE, <<5, 4>> >>,
                  <<FALSE, Zero>>, <<FALSE, <<1, 2>> >> },
        w \in { Zero, <<1, 2>>, <<9, 10>> } }

DrawLists == UNION { [1..n -> PhotonDraws] : n \in 0..MaxPhotons }

InitPhotons ==
    /\ \E p \in PhotonPulsars : pulsars = <<p>>
    /\ true_pos = Origin /\ true_vel = Origin
    /\ exposure = Zero /\ photon_times = <<>>
    /\ call = [op |-> "none", draws |-> <<>>]
    /\ state = KalmanNew(Origin).state
    /\ covariance = KalmanNew(Origin).covariance
    /\ pre = KalmanNew(Origin)
    /\ outcome = "Ok" /\ clean = TRUE /\ ncalls = 0
    /\ NoLoop /\ delay = Zero

SimulateCall ==
    /\ call.op = "none"
    /\ \E duration \in Durations : \E draws \in DrawLists :
          /\ exposure' = duration
          /\ photon_times' = SimulatePhotons(pulsars[1], duration, draws)
          /\ call' = [op |-> "simulate_photons", draws |-> draws]
    /\ UNCHANGED <<state, covariance, outcome, pre, clean, ncalls,
                   truthVars, loopVars, delay>>

NextPhotons == SimulateCall

SpecPhotons == InitPhotons /\ [][NextPhotons]_vars

\* C5: for a pulsar with period > 0 and any duration, whatever the draws,
\* simulate_photons returns timestamps in ascending order, each t with
\* 0 <= t < duration; it returns none when flux = 0 or duration = 0.
C5_PhotonsSortedInWindow ==
    call.op = "simulate_photons" =>
        /\ \A i \in 1..Len(photon_times) :
              /\ RLe(Zero, photon_times[i])
              /\ RLt(photon_times[i], exposure)
        /\ \A i \in 1..(Len(photon_times) - 1) :
              RLe(photon_times[i], photon_times[i + 1])
        /\ (pulsars[1].flux = Zero \/ exposure = Zero) => photon_times = <<>>

\* C5 happens: three photons were drawn, the first falls after the exposure
\* and the other two are kept, the later one drawn first
C5_Witness ==
    /\ call.op = "simulate_photons"
    /\ Len(call.draws) = 3
    /\ ~RLt(FinalTime(pulsars[1], exposure, call.draws[1]), exposure)
    /\ Len(photon_times) = 2
    /\ RLt(photon_times[1], photon_times[2])
    /\ photon_times[1] = FinalTime(pulsars[1], exposure, call.draws[3])

-----------------------------------------------------------------------------
(* main: the simulation loop.  The body of the loop is followed statement  *)
(* by statement; pc names the statement that comes next.                   *)

MaxSteps == 2

\* main: true_pos, true_vel and initial_guess; scaled
TRUE_POS0 == Vec3(<<4, 1>>, <<-6, 1>>, Zero)
TRUE_VEL0 == Vec3(Zero, <<3, 1>>, Zero)
INITIAL_GUESS == Vec3(<<6, 1>>, <<-7, 1>>, One)

\* pulsar descriptors as the parameter files or the catalog may give them
PulsarA == Pulsar("PSR A", DirY, <<10, 1>>, One)
PulsarB == Pulsar("PSR B", DirZ, <<20, 1>>, <<2, 1>>)

\* a period so short that the square of sigma * C_LIGHT underflows
PulsarT == Pulsar("PSR T", DirY, <<1, 20>>, One)

DriverPulsarLists ==
    { <<PulsarA>>, <<PulsarA, PulsarB>>, <<PulsarA, PulsarA>>, <<PulsarT, PulsarT>> }

\* what the generator may yield to simulate_photons in one call: no photon;
\* one photon that falls after the exposure; one photon that is kept; five
\* photons of which four are kept
EarlyPhoton == PhotonDraw(FALSE, <<1, 40>>, Zero)
LatePhoton == PhotonDraw(FALSE, <<1, 2>>, <<1, 2>>)
DriverDraws ==
    { <<>>, <<LatePhoton>>, <<EarlyPhoton>>,
      <<EarlyPhoton, LatePhoton, EarlyPhoton, EarlyPhoton, EarlyPhoton>> }

\* what the generator may yield for the Gaussian noise, in standard errors
NoiseDraws == { <<-1, 2>> }

\* the loop body with update called before predict
PcAfterUpdateFirst(at) ==
    CASE at = "advance" -> "measure"
      [] at = "measure" -> "update"
      [] at = "update" -> "predict"
      [] at = "predict" -> "record"
      [] at = "record" -> "advance"

\* the statement that follows each statement of the loop body
PcAfter(at) ==
    CASE at = "advance" -> "measure"
      [] at = "measure" -> "predict"
      [] at = "predict" -> "update"
      [] at = "update" -> "record"
      [] at = "record" -> "advance"

InitDriver ==
    /\ pulsars \in DriverPulsarLists
    /\ true_pos = TRUE_POS0
    /\ true_vel = TRUE_VEL0
    /\ state = KalmanNew(INITIAL_GUESS).state
    /\ covariance = KalmanNew(INITIAL_GUESS).covariance
    /\ pre = KalmanNew(INITIAL_GUESS)
    /\ outcome = "Ok" /\ call = NoCall /\ clean = TRUE /\ ncalls = 0
    /\ pc = "advance"
    /\ t = 0
    /\ measurements = <<>> /\ noise_variances = <<>>
    /\ counts = <<>> /\ noises = <<>>
    /\ ops = <<>> /\ trajectory = <<>>
    /\ NoPhotons /\ delay = Zero

\* the burn, true_pos += true_vel * dt, and the two empty lists
AdvanceTruth ==
    /\ pc = "advance"
    /\ t < NUM_STEPS
    /\ t < MaxSteps
    /\ true_vel' = IF t = BURN_STEP THEN VecAdd(true_vel, BURN) ELSE true_vel
    /\ true_pos' = VecAdd(true_pos, [i \in 1..3 |-> RMul(true_vel'[i], DT)])
    /\ measurements' = <<>>
    /\ noise_variances' = <<>>
    /\ counts' = <<>>
    /\ noises' = <<>>
    /\ ops' = <<"advance">>
    /\ pc' = IF pulsars = <<>> THEN PcAfter("measure") ELSE PcAfter("advance")
    /\ UNCHANGED <<filterVars, pulsars, t, trajectory, photonVars, delay>>

\* one turn of for p in &pulsars
Measure ==
    /\ pc = "measure"
    /\ LET i == Len(measurements) + 1
           p == pulsars[i]
       IN  \E draws \in DriverDraws : \E g \in NoiseDraws :
             \E ph \in {SimulatePhotons(p, DT, draws)} :
               LET n == Len(ph)
                   measured_toa_noise ==
                       IF ph # <<>> THEN RMul(g, StandardError(p, n)) ELSE Zero
               IN  /\ photon_times' = ph
                   /\ exposure' = DT
                   /\ delay' = ShapiroDelay(p, true_pos)
                   /\ measurements' =
                          Append(measurements,
                                 RAdd(PerfectDelay(true_pos, p), measured_toa_noise))
                   /\ noise_variances' = Append(noise_variances, NoiseVariance(p, n))
                   /\ counts' = Append(counts, n)
                   /\ noises' = Append(noises, measured_toa_noise)
                   /\ pc' = IF i = Len(pulsars) THEN PcAfter("measure") ELSE "measure"
    /\ ops' = Append(ops, "measure")
    /\ UNCHANGED <<filterVars, truthVars, t, trajectory>>

\* nav_system.predict(dt)
DriverPredict ==
    /\ pc = "predict"
    /\ \E kf \in {KalmanPredict(Filter, DT)} :
          /\ state' = kf.state
          /\ covariance' = kf.covariance
    /\ call' = [NoCall EXCEPT !.op = "predict", !.dt = DT]
    /\ pre' = Filter
    /\ outcome' = "Ok"
    /\ ncalls' = ncalls + 1
    /\ ops' = Append(ops, "predict")
    /\ pc' = PcAfter("predict")
    /\ UNCHANGED <<clean, truthVars, t, measurements, noise_variances, counts,
                   noises, trajectory, photonVars, delay>>

\* a loop that goes on after an update that failed
AfterUpdateGoOn(how) == PcAfter("update")

\* the ? after update: an error is returned from main
AfterUpdate(how) ==
    IF how = "Ok" THEN PcAfter("update")
    ELSE IF how = "Err" THEN "returned_err"
    ELSE "panicked"

\* nav_system.update(&pulsars, &measurements, &noise_variances)?
DriverUpdate ==
    /\ pc = "update"
    /\ \E r \in {KalmanUpdate(Filter, pulsars, measurements, noise_variances)} :
          /\ state' = r.state
          /\ covariance' = r.covariance
          /\ outcome' = r.outcome
          /\ clean' = (clean /\ r.outcome = "Ok")
          /\ pc' = AfterUpdate(r.outcome)
    /\ call' = [NoCall EXCEPT !.op = "update", !.pulsars = pulsars,
                              !.measured_delays = measurements,
                              !.variances = noise_variances]
    /\ pre' = Filter
    /\ ncalls' = ncalls + 1
    /\ ops' = Append(ops, "update")
    /\ UNCHANGED <<truthVars, t, measurements, noise_variances, counts, noises,
                   trajectory, photonVars, delay>>

\* the record of the step: estimated_pos and the diagonal of the covariance
\* are read from the filter and a line is written.  The record keeps what
\* error and uncertainty are computed from: the two positions and the diagonal.
Record ==
    /\ pc = "record"
    /\ trajectory' =
           Append(trajectory,
                  [t |-> t, true_pos |-> true_pos, estimated_pos |-> Position,
                   diagonal |-> [i \in Dim |-> covariance[i][i]]])
    /\ ops' = Append(ops, "record")
    /\ t' = t + 1
    /\ pc' = IF t + 1 < NUM_STEPS THEN PcAfter("record") ELSE "done"
    /\ UNCHANGED <<filterVars, truthVars, measurements, noise_variances, counts,
                   noises, photonVars, delay>>

NextDriver == AdvanceTruth \/ Measure \/ DriverPredict \/ DriverUpdate \/ Record

SpecDriver == InitDriver /\ [][NextDriver]_vars

-----------------------------------------------------------------------------
(* Properties of the simulation loop.                                      *)

\* no step leaves a state in which the last update returned the error
NothingAfterFailure == outcome # "Err"

\* C8: in the simulation loop a failure of update in step t for a singular
\* innovation covariance is returned from main: no record is written for
\* step t, and nothing is executed after it, neither a retry of step t nor a
\* predict or an update of a later step.
C8_FailureEndsRun ==
    /\ [](outcome = "Err" =>
            /\ pc = "returned_err"
            /\ call.op = "update"
            /\ Len(trajectory) = t
            /\ \A i \in 1..Len(trajectory) : trajectory[i].t < t)
    /\ [][NothingAfterFailure]_vars

\* C8 happens: the update of the second step meets two measurements of one
\* direction whose variances both underflowed to 0
C8_Witness ==
    /\ pc = "returned_err"
    /\ outcome = "Err"
    /\ t = 1
    /\ Len(trajectory) = 1
    /\ SingularCall

\* what a whole turn of the loop body does, in order
StepOps ==
    <<"advance">> \o [i \in 1..Len(pulsars) |-> "measure"]
                  \o <<"predict", "update", "record">>

\* the measurements of the step are taken from the advanced true position
BatchFromTruth ==
    /\ Len(measurements) = Len(pulsars)
    /\ Len(noise_variances) = Len(pulsars)
    /\ \A i \in 1..Len(pulsars) :
          measurements[i] = RAdd(PerfectDelay(true_pos, pulsars[i]), noises[i])

StepOrder ==
    /\ Len(ops) <= Len(StepOps)
    /\ ops = SubSeq(StepOps, 1, Len(ops))
    /\ pc \in {"predict", "update", "record"} => BatchFromTruth
    /\ pc = "record" =>
          /\ call.op = "update"
          /\ call.pulsars = pulsars
          /\ call.measured_delays = measurements
          /\ call.variances = noise_variances
    /\ (pc \in {"advance", "done"} /\ t > 0) =>
          /\ ops = StepOps
          /\ BatchFromTruth
          /\ Len(trajectory) = t
          /\ trajectory[t].t = t - 1
          /\ trajectory[t].true_pos = true_pos
          /\ trajectory[t].estimated_pos = Position
          /\ trajectory[t].diagonal = [i \in Dim |-> covariance[i][i]]

\* the filter is written by predict and update only
FilterWrittenByCallsOnly ==
    (state' # state \/ covariance' # covariance) =>
        /\ pc \in {"predict", "update"}
        /\ pre' = Filter

\* C9: in every timestep the loop advances the true position, computes one
\* measurement and one variance per pulsar from the advanced truth, calls
\* predict once, calls update once with that batch, then reads state and
\* covariance for the record of the step, in this order; nothing but these
\* two calls changes the filter, which is never reset between steps.
C9_StepOrder ==
    /\ []StepOrder
    /\ [][FilterWrittenByCallsOnly]_vars

\* C9 happens: two whole steps with two pulsars, the filter of the second
\* step carried on from the first
C9_Witness ==
    /\ pc = "advance"
    /\ t = 2
    /\ Len(pulsars) = 2
    /\ ops = StepOps
    /\ trajectory[1].estimated_pos # trajectory[2].estimated_pos
    /\ trajectory[1].diagonal # trajectory[2].diagonal

\* (sigma * c) of n >= 1 photons of pulsar p, before it is squared
SigmaC(p, n) == RMul(RDiv(RMul(p.width, p.period), Sqrt(Int2Rat(n))), C_LIGHT)

\* what C10 says of a step with no photon
SentinelPolicy(i) ==
    counts[i] = 0 =>
        /\ noises[i] = Zero
        /\ noise_variances[i] = RMul(RMul(SENTINEL_SIGMA, C_LIGHT),
                                     RMul(SENTINEL_SIGMA, C_LIGHT))

=============================================================================
